---- MODULE Spec2Model ----
(***************************************************************************)
(* Sage EAS log converter: the classification and compliance-report        *)
(* engine of services/processingService.ts (src/unnamed/part_001), the     *)
(* schema detector of services/geminiService.ts (same file, lines 1-84)    *)
(* and the wizard state machine of App.tsx (src/unnamed/part_000).         *)
(*                                                                         *)
(* Conventions of the model                                                *)
(*  - A JavaScript Date is the number of seconds of local wall-clock time  *)
(*    since 2000-01-01T00:00:00 (getTime() / 1000, shifted).  The zone has *)
(*    a fixed offset (no daylight-saving jumps); years 2000..2067.         *)
(*  - A text is a sequence of tokens; a token is an indivisible chunk of   *)
(*    characters, so String.includes is a contiguous sub-sequence test.    *)
(*  - A decoded XML value is a record with a `kind`: "undef" (the tag is   *)
(*    absent), "text", "num" (fast-xml-parser turns a numeric tag body     *)
(*    into a number) or "obj" (a tag with attributes or nested tags).      *)
(***************************************************************************)
EXTENDS Integers, Sequences, FiniteSets, TLC

\* ------------------------------------------------------------------------
\* Bounds of the model
\* ------------------------------------------------------------------------
MaxRows == 3
MaxReceived == 3
MaxRuns == 3
MaxSelects == 2

\* ------------------------------------------------------------------------
\* Generic helpers
\* ------------------------------------------------------------------------
Range(s) == { s[i] : i \in DOMAIN s }

RECURSIVE SelectSeqOf(_, _, _)
\* Array.prototype.filter, with the test given as a set of accepted values
SelectSeqOf(s, keep, i) ==
    IF i > Len(s) THEN <<>>
    ELSE (IF s[i] \in keep THEN <<s[i]>> ELSE <<>>) \o SelectSeqOf(s, keep, i + 1)

\* ------------------------------------------------------------------------
\* JavaScript Date, as the code uses it
\* ------------------------------------------------------------------------
SecsPerDay == 24 * 60 * 60

IsLeap(y) == (y % 4 = 0 /\ y % 100 # 0) \/ y % 400 = 0

\* leap years in 1..n
LeapsThrough(n) == (n \div 4) - (n \div 100) + (n \div 400)

\* days from 2000-01-01 to y-01-01
DaysBeforeYear(y) == (y - 2000) * 365 + LeapsThrough(y - 1) - LeapsThrough(1999)

DaysInMonth(y, m) ==
    IF m = 2 THEN (IF IsLeap(y) THEN 29 ELSE 28)
    ELSE IF m \in {4, 6, 9, 11} THEN 30 ELSE 31

RECURSIVE DaysBeforeMonth(_, _)
\* days from y-01-01 to y-m-01, m in 1..13
DaysBeforeMonth(y, m) ==
    IF m <= 1 THEN 0 ELSE DaysBeforeMonth(y, m - 1) + DaysInMonth(y, m - 1)

\* new Date(y, m-1, d, h, mi, s) for in-range fields
MakeDate(y, m, d, h, mi, s) ==
    (DaysBeforeYear(y) + DaysBeforeMonth(y, m) + (d - 1)) * SecsPerDay
        + h * 3600 + mi * 60 + s

DayNumber(t) == t \div SecsPerDay

getFullYear(t) ==
    LET dn == DayNumber(t)
        y0 == 2000 + (dn \div 366)
    IN  CHOOSE y \in y0 .. (y0 + 1) :
            DaysBeforeYear(y) <= dn /\ dn < DaysBeforeYear(y + 1)

\* 0-based, as Date.prototype.getMonth
getMonth(t) ==
    LET y   == getFullYear(t)
        doy == DayNumber(t) - DaysBeforeYear(y)
    IN  CHOOSE m \in 0 .. 11 :
            DaysBeforeMonth(y, m + 1) <= doy /\ doy < DaysBeforeMonth(y, m + 2)

getDate(t) ==
    LET y == getFullYear(t)
    IN  DayNumber(t) - DaysBeforeYear(y) - DaysBeforeMonth(y, getMonth(t) + 1) + 1

\* 0 is Sunday; 2000-01-01 was a Saturday
getDay(t) == (DayNumber(t) + 6) % 7

getHours(t) == (t % SecsPerDay) \div 3600

getMinutes(t) == (t % 3600) \div 60

getSeconds(t) == t % 60

\* n.toString().padStart(2, '0')
padStart2(n) == IF n < 10 THEN "0" \o ToString(n) ELSE ToString(n)

\* ------------------------------------------------------------------------
\* Decoded XML values
\* ------------------------------------------------------------------------
Undef == [kind |-> "undef"]

Txt(toks) == [kind |-> "text", toks |-> toks]

Num(n) == [kind |-> "num", n |-> n]

Obj == [kind |-> "obj"]

\* ToBoolean
Truthy(v) ==
    CASE v.kind = "undef" -> FALSE
      [] v.kind = "text"  -> v.toks # <<>>
      [] v.kind = "num"   -> v.n # 0
      [] v.kind = "date"  -> v.segs # <<>>
      [] OTHER            -> TRUE

\* v || ''
OrEmpty(v) == IF Truthy(v) THEN v ELSE Txt(<<>>)

\* String.prototype.includes, on token sequences
includes(toks, pat) ==
    \E i \in 1 .. (Len(toks) - Len(pat) + 1) :
        SubSeq(toks, i, i + Len(pat) - 1) = pat

\* a date text "M/D/Y" or "M/D/Y H:M:S": the '/'-separated segments of the
\* part before the first blank, each a digit string (value n, length len),
\* and the part after the blank
Seg(n, len) == [n |-> n, len |-> len]

NoTime == [kind |-> "none"]

Hms(h, mi, s) == [kind |-> "hms", h |-> h, mi |-> mi, s |-> s]

JunkTime == [kind |-> "junk"]

DateTxt(segs, time) == [kind |-> "date", segs |-> segs, time |-> time]

\* ------------------------------------------------------------------------
\* Date helpers (part_001 lines 155-200)
\* ------------------------------------------------------------------------
NoDate == -1

parseSageDate(dateStr) ==
    IF ~Truthy(dateStr) \/ dateStr.kind # "date" THEN NoDate
    ELSE IF Len(dateStr.segs) # 3 THEN NoDate
    ELSE
        LET month == dateStr.segs[1]
            day   == dateStr.segs[2]
            yseg  == dateStr.segs[3]
            year  == IF yseg.len = 2 THEN Seg(2000 + yseg.n, 4) ELSE yseg
            time  == IF dateStr.time.kind = "none" THEN Hms(0, 0, 0) ELSE dateStr.time
            \* new Date(`${year}-${month}-${day}T${time}`): an ISO date-time
            \* in local time, NaN when a field is malformed or out of range
            valid ==
                /\ year.len = 4 /\ month.len <= 2 /\ day.len <= 2
                /\ month.n \in 1 .. 12
                /\ day.n \in 1 .. DaysInMonth(year.n, month.n)
                /\ time.kind = "hms"
                /\ time.h \in 0 .. 23 /\ time.mi \in 0 .. 59 /\ time.s \in 0 .. 59
        IN  IF valid
            THEN MakeDate(year.n, month.n, day.n, time.h, time.mi, time.s)
            ELSE NoDate

\* getWeekStartDate without the d.setHours(0, 0, 0, 0) of line 184
getWeekStartDate_keepsTime(date) ==
    LET day == getDay(date)
    IN  date - day * SecsPerDay

getWeekStartDate(date) ==
    LET day == getDay(date)
    IN  (DayNumber(date) - day) * SecsPerDay

formatDateShort(d) ==
    ToString(getMonth(d) + 1) \o "/" \o ToString(getDate(d)) \o "/" \o ToString(getFullYear(d))

formatTime(d) ==
    padStart2(getHours(d)) \o ":" \o padStart2(getMinutes(d)) \o ":" \o padStart2(getSeconds(d))

formatWeekRange(sunday) ==
    LET end == sunday + 6 * SecsPerDay
    IN  padStart2(getMonth(sunday) + 1) \o "/" \o padStart2(getDate(sunday)) \o " - "
            \o padStart2(getMonth(end) + 1) \o "/" \o padStart2(getDate(end))

\* ------------------------------------------------------------------------
\* Sage processing logic (part_001 lines 97-113, 202-269)
\* ------------------------------------------------------------------------
SourceMapKeys == {"Monitor 1", "Monitor 2", "Monitor 3", "CAP", "Station"}

SOURCE_MAP(key) ==
    CASE key = "Monitor 1" -> "KBOI 670AM LP2+PEP Monitor 1"
      [] key = "Monitor 2" -> "KBSU 90.3FM LP1 Monitor 2"
      [] key = "Monitor 3" -> "WXK68 162.55 NWS Monitor 3"
      [] key = "CAP"       -> "CAP-IPAWS"
      [] key = "Station"   -> "Station Log"

\* the tokens that are runs of decimal digits
DigitToks == {"1", "2", "3", "7"}

\* /Received on Monitor (\d+)/ : the digits of the first match, "" if none
MonitorMatch(toks) ==
    LET hits == { i \in 1 .. (Len(toks) - 2) :
                    /\ toks[i] = "Received on Monitor"
                    /\ toks[i + 1] = " "
                    /\ toks[i + 2] \in DigitToks }
    IN  IF hits = {} THEN ""
        ELSE toks[(CHOOSE i \in hits : \A j \in hits : i <= j) + 2]

WhiteToks == {" ", "  ", "\n"}

RECURSIVE CollapseWs(_, _)
\* replace(/\s+/g, ' '): every maximal run of whitespace becomes one blank
CollapseWs(toks, i) ==
    IF i > Len(toks) THEN <<>>
    ELSE IF toks[i] \in WhiteToks
         THEN (IF i > 1 /\ toks[i - 1] \in WhiteToks THEN <<>> ELSE <<" ">>)
                  \o CollapseWs(toks, i + 1)
         ELSE <<toks[i]>> \o CollapseWs(toks, i + 1)

\* String.prototype.trim, after CollapseWs
Trim(toks) ==
    LET a == IF toks # <<>> /\ Head(toks) = " " THEN Tail(toks) ELSE toks
    IN  IF a # <<>> /\ a[Len(a)] = " " THEN SubSeq(a, 1, Len(a) - 1) ELSE a

NormalizeDetails(toks) == Trim(CollapseWs(toks, 1))

Null == [kind |-> "null"]

\* a TypeError ("x.includes is not a function") leaves the function
Throw == [kind |-> "throw"]

Entry(type, event, date, source, details, originalSource) ==
    [kind |-> "entry", type |-> type, event |-> event, date |-> date,
     source |-> source, details |-> details, originalSource |-> originalSource]

\* the two tests of lines 213-214 in the other order: RMT first
DetectEvent_rmtFirst(zczc, details) ==
    IF zczc.kind # "text" THEN "throw"
    ELSE IF includes(zczc.toks, <<"-RMT-">>) THEN "RMT"
    ELSE IF details.kind # "text" THEN "throw"
    ELSE IF includes(details.toks, <<"Required Monthly Test">>) THEN "RMT"
    ELSE IF includes(zczc.toks, <<"-RWT-">>)
            \/ includes(details.toks, <<"Required Weekly Test">>) THEN "RWT"
    ELSE ""

\* lines 211-214: "RWT", "RMT", "" or "throw"
DetectEvent(zczc, details) ==
    IF zczc.kind # "text" THEN "throw"
    ELSE IF includes(zczc.toks, <<"-RWT-">>) THEN "RWT"
    ELSE IF details.kind # "text" THEN "throw"
    ELSE IF includes(details.toks, <<"Required Weekly Test">>) THEN "RWT"
    ELSE IF includes(zczc.toks, <<"-RMT-">>)
            \/ includes(details.toks, <<"Required Monthly Test">>) THEN "RMT"
    ELSE ""

\* lines 221-239: <<source, originalSource>>
CleanSource(type, toks) ==
    IF includes(toks, <<"Received from CAP">>)
    THEN <<IF includes(toks, <<"IPAWS">>) THEN "CAP-IPAWS IPAWS@DHS.GOV"
                                          ELSE SOURCE_MAP("CAP"),
           "CAP">>
    ELSE IF includes(toks, <<"Received on Monitor">>)
    THEN LET monNum == MonitorMatch(toks)
             key    == "Monitor " \o monNum
         IN  IF monNum = "" THEN <<"Unknown", "Unknown">>
             ELSE <<IF key \in SourceMapKeys THEN SOURCE_MAP(key) ELSE key, key>>
    ELSE IF type = "Sent" THEN <<"Station Log", "Station">>
    ELSE <<"Unknown", "Unknown">>

parseSageEntry(r) ==
    LET type    == OrEmpty(IF r.kind = "obj" THEN r.type ELSE Undef)
        details == OrEmpty(IF r.kind = "obj" THEN r.details ELSE Undef)
        zczc    == OrEmpty(IF r.kind = "obj" THEN r.zczc ELSE Undef)
        event   == DetectEvent(zczc, details)
        dateObj == parseSageDate(IF r.kind = "obj" THEN r.date ELSE Undef)
    IN  IF type # Txt(<<"Sent">>) /\ type # Txt(<<"Received">>) THEN Null
        ELSE IF event = "throw" THEN Throw
        ELSE IF event = "" THEN Null
        ELSE IF dateObj = NoDate THEN Null
        ELSE IF details.kind # "text" THEN Throw
        ELSE LET src == CleanSource(type.toks[1], details.toks)
             IN  Entry(type.toks[1], event, dateObj, src[1],
                       NormalizeDetails(details.toks), src[2])

\* the filter of line 254 with the comparison turned round
eligibleOf_after(sentEntry, receivedEntries) ==
    SelectSeqOf(receivedEntries,
                { r \in Range(receivedEntries) : r.date > sentEntry.date }, 1)

\* lines 252-269
eligibleOf(sentEntry, receivedEntries) ==
    SelectSeqOf(receivedEntries,
                { r \in Range(receivedEntries) : r.date < sentEntry.date }, 1)

RECURSIVE InsertBy(_, _, _)
\* insertion of e into the sorted sequence s; Before(a, b) is "the comparator
\* puts a strictly before b"; equal elements keep their order (stable sort)
InsertBy(Before(_, _), s, e) ==
    IF s = <<>> THEN <<e>>
    ELSE IF Before(e, Head(s)) THEN <<e>> \o s
    ELSE <<Head(s)>> \o InsertBy(Before, Tail(s), e)

RECURSIVE SortBy(_, _)
\* Array.prototype.sort with a comparator (stable since ES2019)
SortBy(Before(_, _), s) ==
    IF s = <<>> THEN <<>>
    ELSE InsertBy(Before, SortBy(Before, SubSeq(s, 1, Len(s) - 1)), s[Len(s)])

DateAsc(a, b) == a.date < b.date

DateDesc(a, b) == a.date > b.date

\* checkRmtCompliance taking the oldest eligible receipt instead of the latest
\* (the comparator of line 262 reversed)
checkRmtCompliance_oldest(sentEntry, receivedEntries) ==
    LET eligible == eligibleOf(sentEntry, receivedEntries)
    IN  IF Len(eligible) = 0 THEN [compliant |-> FALSE, found |-> FALSE]
        ELSE LET latestReceived == SortBy(DateAsc, eligible)[1]
                 diffSecs       == sentEntry.date - latestReceived.date
             IN  [compliant |-> diffSecs <= 60 * 60, found |-> TRUE]

checkRmtCompliance(sentEntry, receivedEntries) ==
    LET eligible == eligibleOf(sentEntry, receivedEntries)
    IN  IF Len(eligible) = 0 THEN [compliant |-> FALSE, found |-> FALSE]
        ELSE LET latestReceived == SortBy(DateDesc, eligible)[1]
                 diffSecs       == sentEntry.date - latestReceived.date
             IN  [compliant |-> diffSecs <= 60 * 60, found |-> TRUE]

\* ------------------------------------------------------------------------
\* Excel generation (part_001 lines 271-452)
\* ------------------------------------------------------------------------
\* addCell(ws, row, col, val, style): one write into the worksheet, with the
\* style given by the name of its STYLES member ("bold" is the literal style
\* of line 301).  No two writes of a sheet share a cell reference: the rows
\* of the sections are disjoint and a row's columns are distinct.
addCell(r, c, val, style) == [r |-> r, c |-> c, v |-> val, s |-> style]

\* a worksheet under construction: the writes made so far and currentRow
Ws(cells, currentRow) == [cells |-> cells, currentRow |-> currentRow]

\* header.forEach((h, i) => addCell(ws, currentRow, i, h, STYLES.header))
HeaderRow(r, header) == { addCell(r, i - 1, header[i], "header") : i \in DOMAIN header }

\* toLocaleString('default', { month: 'long' }), English locale
MonthName(m) ==
    <<"January", "February", "March", "April", "May", "June", "July",
      "August", "September", "October", "November", "December">>[m]

EventType(entries, event, type) ==
    SelectSeqOf(entries, { e \in Range(entries) : e.event = event /\ e.type = type }, 1)

\* 1. Title header (lines 297-302)
TitleBlock(year, month) ==
    Ws({ addCell(0, 0, "Emergency Alert System Log", "title"),
         addCell(0, 3, "Station:", "cell"),
         addCell(1, 3, "Month/Year: " \o MonthName(month) \o " " \o ToString(year), "bold") },
       3)

\* lines 318-324: the row of the i-th received RMT
RmtReceivedRow(r, e) ==
    { addCell(r, 0, e.source, "cell"),
      addCell(r, 1, formatDateShort(e.date), "cellCenter"),
      addCell(r, 2, formatTime(e.date), "cellCenter"),
      addCell(r, 4, "CRW", "cell") }

\* 2. RMT Received section (lines 304-327)
RmtReceivedSection(ws, rmtReceived) ==
    LET r0   == ws.currentRow
        body == IF Len(rmtReceived) = 0
                THEN { addCell(r0 + 2, 0, "(No RMT Received)", "cell") }
                ELSE UNION { RmtReceivedRow(r0 + 1 + i, rmtReceived[i]) :
                                i \in DOMAIN rmtReceived }
        r1   == r0 + 2 + (IF Len(rmtReceived) = 0 THEN 1 ELSE Len(rmtReceived))
    IN  Ws(ws.cells
             \cup { addCell(r0, 0, "Required Monthly Test (RMT) Received", "header") }
             \cup HeaderRow(r0 + 1, <<"Received From", "Date", "Time", "", "Signature or Notes">>)
             \cup body
             \cup { addCell(r1, 0, "Explanation for RMT not received:", "cell") },
           r1 + 2)

\* line 345
ComplianceText(compliance) ==
    IF compliance.found
    THEN (IF compliance.compliant THEN "Y" ELSE "N (Over 1hr)")
    ELSE "N (No RX)"

\* the style of the unused complianceStyle of line 346, chosen from compliant alone
ComplianceCellStyle_twoWay(compliance) ==
    IF compliance.compliant THEN "success" ELSE "missing"

\* line 350
ComplianceCellStyle(compliance) ==
    IF compliance.found /\ compliance.compliant THEN "success"
    ELSE IF compliance.found THEN "missing" ELSE "warning"

\* lines 342-353: the row of one sent RMT
RmtSentRow(r, e, rmtReceived) ==
    LET compliance == checkRmtCompliance(e, rmtReceived)
    IN  { addCell(r, 0, formatDateShort(e.date), "cellCenter"),
          addCell(r, 1, formatTime(e.date), "cellCenter"),
          addCell(r, 2, ComplianceText(compliance), ComplianceCellStyle(compliance)),
          addCell(r, 4, "CRW", "cell") }

\* 3. RMT Transmitted section (lines 329-356)
RmtSentSection(ws, rmtSent, rmtReceived) ==
    LET r0   == ws.currentRow
        body == IF Len(rmtSent) = 0
                THEN { addCell(r0 + 2, 0, "(No RMT Sent)", "cell") }
                ELSE UNION { RmtSentRow(r0 + 1 + i, rmtSent[i], rmtReceived) :
                                i \in DOMAIN rmtSent }
        r1   == r0 + 2 + (IF Len(rmtSent) = 0 THEN 1 ELSE Len(rmtSent))
    IN  Ws(ws.cells
             \cup { addCell(r0, 0, "Required Monthly Test (RMT) Transmitted", "header") }
             \cup HeaderRow(r0 + 1,
                    <<"Date", "Time Sent", "Within 1 Hour? Y/N", "", "Signature or Notes">>)
             \cup body
             \cup { addCell(r1, 0, "Explanation for RMT not transmitted:", "cell") },
           r1 + 2)

RECURSIVE SortedNumbers(_)
\* Array.from(set).sort((a, b) => a - b)
SortedNumbers(S) ==
    IF S = {} THEN <<>>
    ELSE LET lo == CHOOSE x \in S : \A y \in S : x <= y
         IN  <<lo>> \o SortedNumbers(S \ {lo})

\* the weeks taken from the RWT entries only
sortedWeeksOf_rwtOnly(entries) ==
    SortedNumbers({ getWeekStartDate(e.date) : e \in { x \in Range(entries) : x.event = "RWT" } })

\* lines 362-365
sortedWeeksOf(entries) ==
    SortedNumbers({ getWeekStartDate(e.date) : e \in Range(entries) })

\* the source labels the vocabulary can produce, in the order of the default
\* Array.prototype.sort (UTF-16 code units)
LabelOrder ==
    <<"CAP-IPAWS", "CAP-IPAWS IPAWS@DHS.GOV", "KBOI 670AM LP2+PEP Monitor 1",
      "KBSU 90.3FM LP1 Monitor 2", "Monitor 7", "Station Log", "Unknown",
      "WXK68 162.55 NWS Monitor 3">>

\* the rows keyed by the raw source token instead of the label
RowKey_originalSource(e) == e.originalSource

\* the grouping key of the matrix rows (line 376: e => e.source)
RowKey(e) == e.source

\* the sources sorted without the new Set(...) of line 376: one per entry
sourcesOf_noSet(rwtReceived) ==
    LET keys   == [i \in DOMAIN rwtReceived |-> RowKey(rwtReceived[i])]
        pos(l) == CHOOSE j \in DOMAIN LabelOrder : LabelOrder[j] = l
    IN  SortBy(LAMBDA a, b : pos(a) < pos(b), keys)

\* Array.from(new Set(rwtReceived.map(e => e.source))).sort()  (line 376)
sourcesOf(rwtReceived) ==
    LET present == { RowKey(e) : e \in Range(rwtReceived) }
    IN  SelectSeqOf(LabelOrder, present, 1)

\* rwtReceived.find(...) of lines 387-391: the index of the first hit, 0 if none
FindEntry(rwtReceived, src, weekStart) ==
    LET weekEnd == weekStart + 7 * SecsPerDay
        hits == { k \in 1 .. Len(rwtReceived) :
                    /\ RowKey(rwtReceived[k]) = src
                    /\ rwtReceived[k].date >= weekStart
                    /\ rwtReceived[k].date < weekEnd }
    IN  IF hits = {} THEN 0 ELSE CHOOSE k \in hits : \A j \in hits : k <= j

\* MatrixCell with the else branch of line 396 leaving the cell blank
MatrixCell_blank(r, rwtReceived, src, weekStart, i) ==
    LET k == FindEntry(rwtReceived, src, weekStart)
    IN  IF k # 0
        THEN addCell(r, i, formatDateShort(rwtReceived[k].date) \o "\n"
                               \o formatTime(rwtReceived[k].date), "cellCenter")
        ELSE addCell(r, i, "", "cell")

\* lines 393-398: the cell of source src in the i-th week column
MatrixCell(r, rwtReceived, src, weekStart, i) ==
    LET k == FindEntry(rwtReceived, src, weekStart)
    IN  IF k # 0
        THEN addCell(r, i, formatDateShort(rwtReceived[k].date) \o "\n"
                               \o formatTime(rwtReceived[k].date), "cellCenter")
        ELSE addCell(r, i, "MISSING", "missing")

\* lines 379-401: the row of one source
MatrixRow(r, rwtReceived, src, sortedWeeks) ==
    { addCell(r, 0, src, "cell") }
        \cup { MatrixCell(r, rwtReceived, src, sortedWeeks[i], i) : i \in DOMAIN sortedWeeks }

\* 4. RWT Received section, the matrix (lines 358-408)
RwtMatrixSection(ws, entries) ==
    LET r0          == ws.currentRow
        sortedWeeks == sortedWeeksOf(entries)
        rwtReceived == EventType(entries, "RWT", "Received")
        sources     == sourcesOf(rwtReceived)
        header == { addCell(r0 + 1, 0, "LP or NWS", "header") }
                    \cup { addCell(r0 + 1, i, "WEEK OF\n" \o formatWeekRange(sortedWeeks[i]),
                                   "header") : i \in DOMAIN sortedWeeks }
        body   == IF Len(sources) = 0
                  THEN { addCell(r0 + 2, 0, "No RWT Received Data", "cell") }
                  ELSE UNION { MatrixRow(r0 + 1 + j, rwtReceived, sources[j], sortedWeeks) :
                                  j \in DOMAIN sources }
        r1     == r0 + 2 + (IF Len(sources) = 0 THEN 1 ELSE Len(sources))
    IN  Ws(ws.cells
             \cup { addCell(r0, 0, "Required Weekly Test (RWT) Received", "header") }
             \cup header \cup body,
           r1 + 2)

\* lines 420-427: the row of one sent RWT
RwtSentRow(r, e) ==
    LET weekStart == getWeekStartDate(e.date)
    IN  { addCell(r, 0, formatWeekRange(weekStart), "cellCenter"),
          addCell(r, 1, formatDateShort(e.date), "cellCenter"),
          addCell(r, 2, formatTime(e.date), "cellCenter"),
          addCell(r, 3, "CRW", "cell") }

\* 5. RWT Transmitted section (lines 410-432)
RwtSentSection(ws, rwtSent) ==
    LET r0 == ws.currentRow
        r1 == r0 + 2 + Len(rwtSent)
    IN  Ws(ws.cells
             \cup { addCell(r0, 0, "Required Weekly Test (RWT) Transmitted", "header") }
             \cup HeaderRow(r0 + 1, <<"WEEK OF", "DATE", "TIME", "SIGNATURE or NOTES">>)
             \cup UNION { RwtSentRow(r0 + 1 + i, rwtSent[i]) : i \in DOMAIN rwtSent }
             \cup { addCell(r1, 0, "Explanation of RWT Failures:", "cell"),
                    addCell(r1 + 2, 0, "Other Information:", "cell") },
           r1 + 5)

\* 6. Footer (lines 434-445)
FooterSection(ws, sortedWeeks) ==
    LET r0 == ws.currentRow
    IN  Ws(ws.cells
             \cup { addCell(r0, 0, "Weekly Log Review by Chief Operator or Designee", "header"),
                    addCell(r0 + 1, 0, "WEEK OF", "header"),
                    addCell(r0 + 1, 1, "SIGNATURE", "header") }
             \cup UNION { { addCell(r0 + 1 + i, 0, formatWeekRange(sortedWeeks[i]), "cellCenter"),
                            addCell(r0 + 1 + i, 1, "CRW", "cell") } : i \in DOMAIN sortedWeeks },
           r0 + 2 + Len(sortedWeeks))

\* the worksheet object: cell reference -> {v, s}
SheetCells(cells) ==
    [ ref \in { <<w.r, w.c>> : w \in cells } |->
        LET w == CHOOSE x \in cells : <<x.r, x.c>> = ref
        IN  [v |-> w.v, s |-> w.s] ]

generateMonthSheet(entries, year, month) ==
    LET rmtReceived == SortBy(DateAsc, EventType(entries, "RMT", "Received"))
        rmtSent     == SortBy(DateAsc, EventType(entries, "RMT", "Sent"))
        rwtSent     == SortBy(DateAsc, EventType(entries, "RWT", "Sent"))
        sortedWeeks == sortedWeeksOf(entries)
        w1 == TitleBlock(year, month)
        w2 == RmtReceivedSection(w1, rmtReceived)
        w3 == RmtSentSection(w2, rmtSent, rmtReceived)
        w4 == RwtMatrixSection(w3, entries)
        w5 == RwtSentSection(w4, rwtSent)
        w6 == FooterSection(w5, sortedWeeks)
    IN  [cells |-> SheetCells(w6.cells),
         cols  |-> <<35, 18, 18, 15, 30, 15, 15>>,
         ref   |-> [c |-> Len(sortedWeeks) + 1, r |-> w6.currentRow]]

\* ------------------------------------------------------------------------
\* Main processing (part_001 lines 454-551)
\* ------------------------------------------------------------------------
\* the object fast-xml-parser returns: nodes with ordered keys, arrays (only
\* the repeating 'entry' tag is decoded as an array, line 469) and leaves
Node(keys, vals) == [kind |-> "node", keys |-> keys, vals |-> vals]

Arr(items) == [kind |-> "arr", items |-> items]

\* obj[key]
Get(obj, key) ==
    IF obj.kind = "node" /\ \E i \in DOMAIN obj.keys : obj.keys[i] = key
    THEN obj.vals[CHOOSE i \in DOMAIN obj.keys : obj.keys[i] = key]
    ELSE Undef

RECURSIVE findArrayFrom(_, _)
\* lines 478-487: the loop of findArray from the i-th key on
findArrayFrom(obj, i) ==
    IF obj.kind # "node" \/ i > Len(obj.keys) THEN <<>>
    ELSE IF obj.vals[i].kind = "arr" THEN obj.vals[i].items
    ELSE LET res == IF obj.vals[i].kind = "node"
                    THEN findArrayFrom(obj.vals[i], 1) ELSE <<>>
         IN  IF Len(res) > 0 THEN res ELSE findArrayFrom(obj, i + 1)

findArray(obj) == findArrayFrom(obj, 1)

\* lines 473-489
ExtractRows(jsonObj) ==
    LET log   == Get(jsonObj, "log")
        entry == Get(log, "entry")
    IN  IF Truthy(log) /\ Truthy(entry)
        THEN (IF entry.kind = "arr" THEN entry.items ELSE <<entry>>)
        ELSE findArray(jsonObj)

RECURSIVE ClassifyFrom(_, _, _)
\* lines 494-498: the entries pushed so far, or Throw as soon as
\* parseSageEntry throws
ClassifyFrom(rows, i, acc) ==
    IF i > Len(rows) THEN [kind |-> "ok", entries |-> acc]
    ELSE LET entry == parseSageEntry(rows[i])
         IN  IF entry.kind = "throw" THEN Throw
             ELSE ClassifyFrom(rows, i + 1,
                               IF entry.kind = "entry" THEN Append(acc, entry) ELSE acc)

ClassifyAll(rows) == ClassifyFrom(rows, 1, <<>>)

\* MonthKey without the padStart(2, '0') of line 506
MonthKey_unpadded(entry) ==
    LET y == getFullYear(entry.date)
        m == getMonth(entry.date) + 1
    IN  [text |-> ToString(y) \o "/" \o ToString(m), year |-> y, month |-> m]

\* lines 505-507: the key `${y}/${m}` with the two parts key.split('/') gives back
MonthKey(entry) ==
    LET y == getFullYear(entry.date)
        m == getMonth(entry.date) + 1
    IN  [text |-> ToString(y) \o "/" \o padStart2(m), year |-> y, month |-> m]

RECURSIVE GroupFrom(_, _, _)
\* lines 504-511: grouped, as the list of its [key, entries] in insertion order
GroupFrom(allEntries, i, grouped) ==
    IF i > Len(allEntries) THEN grouped
    ELSE LET key == MonthKey(allEntries[i])
             at  == { g \in DOMAIN grouped : grouped[g].key = key }
         IN  GroupFrom(allEntries, i + 1,
                 IF at = {}
                 THEN Append(grouped, [key |-> key, entries |-> <<allEntries[i]>>])
                 ELSE [grouped EXCEPT ![CHOOSE g \in at : TRUE].entries =
                                          Append(@, allEntries[i])])

GroupByMonth(allEntries) == GroupFrom(allEntries, 1, <<>>)

\* string order of two keys "YYYY/MM" (four-digit years)
KeyBefore(a, b) == a.year < b.year \/ (a.year = b.year /\ a.month < b.month)

\* Array.from(monthsFound).sort()  (line 540)
SortedMonths(grouped) ==
    SortBy(KeyBefore, [g \in DOMAIN grouped |-> grouped[g].key])

\* lines 518-529: one workbook of the archive
BuildFile(group) ==
    LET year  == group.key.year
        month == group.key.month
        yy    == ToString(year)
        mm    == padStart2(month)
    IN  [path  |-> yy \o "/" \o mm \o "/Sage_Log_" \o yy \o "-" \o mm \o ".xlsx",
         sheet |-> mm \o "-" \o yy,
         key   |-> group.key,
         ws    |-> generateMonthSheet(group.entries, year, month)]

\* ------------------------------------------------------------------------
\* Input vocabulary: the field values the raw records are drawn from
\* ------------------------------------------------------------------------
Row(type, zczc, details, date) ==
    [kind |-> "obj", type |-> type, zczc |-> zczc, details |-> details, date |-> date]

TypeValues ==
    { Undef, Txt(<<"Sent">>), Txt(<<"Received">>), Txt(<<"sent">>),
      Txt(<<"Info">>), Num(1) }

ZczcValues ==
    { Undef, Num(0), Num(16001), Obj,
      Txt(<<"ZCZC-EAS", "-RWT-", "016001+0015">>),
      Txt(<<"ZCZC-EAS", "-RMT-", "016001+0015">>),
      Txt(<<"ZCZC-EAS", "-rwt-", "016001+0015">>),
      Txt(<<"ZCZC-CIV", "-EAN-", "016001+0015">>) }

DetailsValues ==
    { Undef, Num(12345), Obj,
      Txt(<<"Required Weekly Test", " ", "Received on Monitor", " ", "1">>),
      Txt(<<"Required Monthly Test", " ", "Received from CAP">>),
      Txt(<<" ", "Required Monthly Test", "  ", "Received from CAP", "\n", "IPAWS", " ">>),
      Txt(<<"required weekly test", " ", "Received on Monitor", " ", "2">>),
      Txt(<<"Received on Monitor", " ", "7">>),
      Txt(<<"Received on Monitor", " ", "X">>),
      Txt(<<"Required Weekly Test", " ", "Sent">>),
      Txt(<<"Audio level alarm">>) }

DateValues ==
    { Undef, Num(20240315),
      DateTxt(<<Seg(3, 1), Seg(15, 2), Seg(24, 2)>>, Hms(14, 0, 0)),
      DateTxt(<<Seg(12, 2), Seg(31, 2), Seg(2023, 4)>>, NoTime),
      DateTxt(<<Seg(3, 1), Seg(2024, 4)>>, Hms(14, 0, 0)),
      DateTxt(<<Seg(13, 2), Seg(1, 1), Seg(24, 2)>>, Hms(14, 0, 0)),
      DateTxt(<<Seg(2, 1), Seg(30, 2), Seg(24, 2)>>, Hms(9, 30, 0)),
      DateTxt(<<Seg(3, 1), Seg(15, 2), Seg(24, 2)>>, JunkTime) }

RowUniverse ==
    { Row(t, z, d, dt) : t \in TypeValues, z \in ZczcValues,
                         d \in DetailsValues, dt \in DateValues }
        \cup { Txt(<<>>) }

\* the raw records the runs of the pipeline are drawn from
T_MAR15 == DateTxt(<<Seg(3, 1), Seg(15, 2), Seg(24, 2)>>, Hms(14, 0, 0))

D(m, d, h, mi) == DateTxt(<<Seg(m, 1), Seg(d, 2), Seg(2024, 4)>>, Hms(h, mi, 0))

ZRwt == Txt(<<"ZCZC-EAS", "-RWT-", "016001+0015">>)

ZRmt == Txt(<<"ZCZC-EAS", "-RMT-", "016001+0015">>)

OnMonitor1 == Txt(<<"Received on Monitor", " ", "1">>)

OnMonitor2 == Txt(<<"Received on Monitor", " ", "2">>)

FromCap == Txt(<<"Received from CAP">>)

FromCapIpaws == Txt(<<"Received from CAP", " ", "IPAWS">>)

PipelineRows ==
    { Row(Txt(<<"Sent">>), ZRmt, Undef, T_MAR15),
      Row(Txt(<<"Received">>), ZRmt, OnMonitor1, D(3, 15, 13, 20)),
      Row(Txt(<<"Received">>), ZRmt, FromCap, D(3, 15, 12, 30)),
      Row(Txt(<<"Sent">>), Undef, Txt(<<"Audio level alarm">>), D(3, 15, 14, 5)),
      Row(Txt(<<"Received">>), ZRmt, OnMonitor2, D(1, 31, 23, 30)),
      Row(Txt(<<"Sent">>), ZRmt, Undef, D(2, 1, 0, 10)),
      Row(Txt(<<"Received">>), ZRwt, FromCapIpaws, D(3, 5, 10, 0)),
      Row(Txt(<<"Received">>), ZRwt, FromCap, D(3, 12, 10, 0)),
      Row(Txt(<<"Received">>), ZRwt, OnMonitor1, D(3, 6, 9, 0)),
      Row(Txt(<<"Received">>), ZRwt, OnMonitor1, D(3, 13, 9, 0)),
      Row(Txt(<<"Sent">>), ZRwt, Undef, D(3, 14, 8, 0)),
      Row(Txt(<<"Received">>), ZRwt, OnMonitor1, D(1, 31, 11, 0)),
      Row(Txt(<<"Received">>), ZRwt, OnMonitor1, D(2, 6, 11, 0)),
      Row(Txt(<<"Received">>), Num(16001), OnMonitor1, D(3, 15, 13, 0)) }

\* the sequences over S of length 1..n
SeqsUpTo(S, n) == UNION { [1 .. k -> S] : k \in 1 .. n }

\* <log><entry>..</entry>..</log>
LogDoc(rs) == Node(<<"log">>, <<Node(<<"entry">>, <<Arr(rs)>>)>>)

\* the records under another root: found by the recursive search
WrappedDoc(rs) ==
    Node(<<"?xml", "export">>,
         <<Node(<<"@_version">>, <<Txt(<<"1.0">>)>>),
           Node(<<"station", "entry">>, <<Txt(<<"KXYZ">>), Arr(rs)>>)>>)

\* decoded inputs with no record at all: an empty document, an empty <log/>,
\* a <log> with no <entry>
EmptyDocs ==
    { Node(<<>>, <<>>),
      Node(<<"log">>, <<Txt(<<>>)>>),
      Node(<<"log">>, <<Node(<<"station">>, <<Txt(<<"KXYZ">>)>>)>>) }

Docs ==
    { LogDoc(rs) : rs \in SeqsUpTo(PipelineRows, MaxRows) }
        \cup { WrappedDoc(<<r>>) : r \in PipelineRows }
        \cup EmptyDocs

\* ------------------------------------------------------------------------
\* geminiService.ts, analyzeXMLSchema (part_001 lines 7-84)
\* ------------------------------------------------------------------------
SageMapping ==
    [rootElement |-> "log", rowElement |-> "entry", dateField |-> "date",
     fieldsToExport |-> <<>>, isSage |-> TRUE]

FallbackMapping ==
    [rootElement |-> "root", rowElement |-> "row", dateField |-> "date",
     fieldsToExport |-> <<"date", "details">>, isSage |-> FALSE]

\* what the model answers when asked (JSON.parse of its text, line 79)
AiMapping ==
    [rootElement |-> "export", rowElement |-> "entry", dateField |-> "date",
     fieldsToExport |-> <<"type", "date", "details">>, isSage |-> FALSE]

AnalysisFailed == [kind |-> "failed"]

\* the results analyzeXMLSchema can settle with for a file, given whether
\* API_KEY is set: the fast path and the fallback are decided by the code,
\* the remote call answers or throws
analyzeXMLSchema(f, hasKey) ==
    IF f.sage THEN { SageMapping }
    ELSE IF ~hasKey THEN { FallbackMapping }
    ELSE { AiMapping, AnalysisFailed }

\* ------------------------------------------------------------------------
\* processXMLFile as a whole: how the promise settles once reader.onload
\* has run on the decoded file (lines 463-547)
\* ------------------------------------------------------------------------
Rejected(message) == [kind |-> "rejected", message |-> message]

Resolved(zipFiles, allEntries, filesCreated, grouped) ==
    [kind |-> "resolved",
     zipBlob |-> zipFiles,
     stats |-> [totalRows |-> Len(allEntries),
                filesCreated |-> filesCreated,
                monthsFound |-> SortedMonths(grouped)]]

\* processXMLFile locating the records by the mapping's rootElement and
\* rowElement instead of lines 473-489
processXMLFile_byMapping(jsonObj, mapping) ==
    LET entry == Get(Get(jsonObj, mapping.rootElement), mapping.rowElement)
        rows  == IF entry.kind = "arr" THEN entry.items ELSE <<>>
        res   == ClassifyAll(rows)
    IN  IF Len(rows) = 0 THEN Rejected("No records found.")
        ELSE IF res.kind = "throw" THEN Rejected("includes is not a function")
        ELSE LET grouped == GroupByMonth(res.entries)
             IN  Resolved([g \in DOMAIN grouped |-> BuildFile(grouped[g])],
                          res.entries, Len(grouped), grouped)

\* processXMLFile without the check of line 491
processXMLFile_noEmptyCheck(jsonObj, mapping) ==
    LET rows == ExtractRows(jsonObj)
        res  == ClassifyAll(rows)
    IN  IF res.kind = "throw" THEN Rejected("includes is not a function")
        ELSE LET grouped == GroupByMonth(res.entries)
             IN  Resolved([g \in DOMAIN grouped |-> BuildFile(grouped[g])],
                          res.entries, Len(grouped), grouped)

processXMLFile(jsonObj, mapping) ==
    LET rows == ExtractRows(jsonObj)
        res  == ClassifyAll(rows)
    IN  IF Len(rows) = 0 THEN Rejected("No records found.")
        ELSE IF res.kind = "throw" THEN Rejected("includes is not a function")
        ELSE LET grouped == GroupByMonth(res.entries)
             IN  Resolved([g \in DOMAIN grouped |-> BuildFile(grouped[g])],
                          res.entries, Len(grouped), grouped)

\* reader.onerror rejects with the ProgressEvent, which has no message
ReaderFailed == Rejected("undefined")

\* ------------------------------------------------------------------------
\* State
\* ------------------------------------------------------------------------
\* parseSageEntry applied to one raw record
VARIABLES row, parsed

\* checkRmtCompliance applied to one sent entry and a list of received ones
VARIABLES sentEntry, receivedEntries, compliance

\* one call of processXMLFile: the decoded file, the position in the
\* handler, its locals, and how the promise settled
VARIABLES jsonObj, pc, rows, allEntries, grouped, zip, filesCreated, outcome

\* App.tsx: the component state (lines 26-31), the view whose controls are
\* on screen, the pending analyzeXMLSchema calls and processing runs, the
\* archive last handed to the browser, and whether API_KEY is set
VARIABLES currentStep, file, mapping, processingResult, error, loading,
          stale, analyses, runs, started, downloaded, apiKey

\* getWeekStartDate: the two Date arguments, the Dates returned for them,
\* and the Dates returned when those are passed in again
VARIABLES weekDates, weekStarts, weekAgain

classifyVars == <<row, parsed>>

complianceVars == <<sentEntry, receivedEntries, compliance>>

pipelineVars == <<jsonObj, pc, rows, allEntries, grouped, zip, filesCreated, outcome>>

appState == <<currentStep, file, mapping, processingResult, error, loading>>

appVars == <<appState, stale, analyses, runs, started, downloaded, apiKey>>

\* getWeekStartDate applied to two dates, and to its own results
weekVars == <<weekDates, weekStarts, weekAgain>>

vars == <<classifyVars, complianceVars, pipelineVars, appVars, weekVars>>

Pending == [kind |-> "pending"]

\* JavaScript null, for the state of the component
NullValue == [kind |-> "null"]

ClassifyIdle == row = Undef /\ parsed = Null

ComplianceIdle == sentEntry = Null /\ receivedEntries = <<>> /\ compliance = Pending

PipelineIdle ==
    /\ jsonObj = Undef /\ pc = "idle" /\ rows = <<>> /\ allEntries = <<>>
    /\ grouped = <<>> /\ zip = <<>> /\ filesCreated = 0 /\ outcome = Pending

WeekIdle == weekDates = <<>> /\ weekStarts = <<>> /\ weekAgain = <<>>

AppIdle ==
    /\ currentStep = "UPLOAD" /\ file = NullValue /\ mapping = NullValue
    /\ processingResult = NullValue /\ error = NullValue /\ loading = FALSE
    /\ stale = NullValue /\ analyses = <<>> /\ runs = <<>>
    /\ started = [selects |-> 0, runs |-> 0]
    /\ downloaded = NullValue /\ apiKey = FALSE

\* ------------------------------------------------------------------------
\* Specification of the classifier alone: any raw record, classified once
\* ------------------------------------------------------------------------
InitClassify ==
    /\ row \in RowUniverse
    /\ parsed = Pending
    /\ ComplianceIdle /\ PipelineIdle /\ AppIdle /\ WeekIdle

Classify ==
    /\ parsed = Pending
    /\ parsed' = parseSageEntry(row)
    /\ UNCHANGED <<row, complianceVars, pipelineVars, appVars, weekVars>>

NextClassify == Classify

SpecClassify == InitClassify /\ [][NextClassify]_vars

\* ------------------------------------------------------------------------
\* Specification of the compliance matcher alone: a sent RMT at one of two
\* instants and any list of received RMTs around it
\* ------------------------------------------------------------------------
SentTimes == { MakeDate(2024, 3, 15, 14, 0, 0), MakeDate(2024, 3, 15, 13, 0, 0) }

\* T-90 min, T-60 min-1 s, T-60 min, T-45 min, T-10 min, T, T+1 s for T = 14:00:00
ReceivedTimes ==
    { MakeDate(2024, 3, 15, 12, 30, 0), MakeDate(2024, 3, 15, 12, 59, 59),
      MakeDate(2024, 3, 15, 13, 0, 0), MakeDate(2024, 3, 15, 13, 15, 0),
      MakeDate(2024, 3, 15, 13, 50, 0), MakeDate(2024, 3, 15, 14, 0, 0),
      MakeDate(2024, 3, 15, 14, 0, 1) }

SentRmtAt(t) == Entry("Sent", "RMT", t, "Station Log", <<>>, "Station")

ReceivedRmtAt(t) ==
    Entry("Received", "RMT", t, SOURCE_MAP("Monitor 1"), <<>>, "Monitor 1")

InitCompliance ==
    /\ sentEntry \in { SentRmtAt(t) : t \in SentTimes }
    /\ receivedEntries \in
           {<<>>} \cup UNION { [1 .. k -> { ReceivedRmtAt(t) : t \in ReceivedTimes }] :
                                  k \in 1 .. MaxReceived }
    /\ compliance = Pending
    /\ ClassifyIdle /\ PipelineIdle /\ AppIdle /\ WeekIdle

CheckCompliance ==
    /\ compliance = Pending
    /\ compliance' = checkRmtCompliance(sentEntry, receivedEntries)
    /\ UNCHANGED <<sentEntry, receivedEntries, classifyVars, pipelineVars, appVars, weekVars>>

NextCompliance == CheckCompliance

SpecCompliance == InitCompliance /\ [][NextCompliance]_vars

\* ------------------------------------------------------------------------
\* Specification of getWeekStartDate alone: two dates, floored once and then
\* floored again
\* ------------------------------------------------------------------------
\* instants around the ends of weeks, months and years: Saturday 2 March 2024
\* 23:59:59, Sunday 3 March 00:00:00 and 00:00:01, Friday 15 March 14:00:00,
\* Saturday 9 March 12:00:00, Sunday 10 March 23:59:59, Thursday 29 February
\* 2024, Friday 1 March 00:00:00, Sunday 31 December 2023 00:00:00 and
\* 23:59:59, Monday 1 January 2024, Saturday 6 January 2024 23:59:59, Saturday
\* 1 January 2000 00:00:00
WeekInstants ==
    { MakeDate(2024, 3, 2, 23, 59, 59), MakeDate(2024, 3, 3, 0, 0, 0),
      MakeDate(2024, 3, 3, 0, 0, 1), MakeDate(2024, 3, 15, 14, 0, 0),
      MakeDate(2024, 3, 9, 12, 0, 0), MakeDate(2024, 3, 10, 23, 59, 59),
      MakeDate(2024, 2, 29, 8, 30, 0), MakeDate(2024, 3, 1, 0, 0, 0),
      MakeDate(2023, 12, 31, 0, 0, 0), MakeDate(2023, 12, 31, 23, 59, 59),
      MakeDate(2024, 1, 1, 0, 0, 0), MakeDate(2024, 1, 6, 23, 59, 59),
      MakeDate(2000, 1, 1, 0, 0, 0) }

InitWeek ==
    /\ weekDates \in WeekInstants \X WeekInstants
    /\ weekStarts = <<>> /\ weekAgain = <<>>
    /\ ClassifyIdle /\ ComplianceIdle /\ PipelineIdle /\ AppIdle

\* getWeekStartDate(date) for each of the two dates; `const d = new Date(date)`
\* (line 180) copies the argument, which is left as it is
WeekStartOfDates ==
    /\ weekStarts = <<>>
    /\ weekStarts' = <<getWeekStartDate(weekDates[1]), getWeekStartDate(weekDates[2])>>
    /\ UNCHANGED <<weekDates, weekAgain, classifyVars, complianceVars, pipelineVars, appVars>>

\* getWeekStartDate applied to the Dates it returned
WeekStartOfStarts ==
    /\ weekStarts # <<>> /\ weekAgain = <<>>
    /\ weekAgain' = <<getWeekStartDate(weekStarts[1]), getWeekStartDate(weekStarts[2])>>
    /\ UNCHANGED <<weekDates, weekStarts, classifyVars, complianceVars, pipelineVars, appVars>>

NextWeek == WeekStartOfDates \/ WeekStartOfStarts

SpecWeek == InitWeek /\ [][NextWeek]_vars

\* ------------------------------------------------------------------------
\* Specification of one run of processXMLFile
\* ------------------------------------------------------------------------
InitPipeline ==
    /\ jsonObj \in Docs
    /\ pc = "reading"
    /\ rows = <<>> /\ allEntries = <<>> /\ grouped = <<>>
    /\ zip = <<>> /\ filesCreated = 0
    /\ outcome = Pending
    /\ ClassifyIdle /\ ComplianceIdle /\ AppIdle /\ WeekIdle

\* reader.onerror (line 548)
ReaderError ==
    /\ pc = "reading"
    /\ pc' = "settled"
    /\ outcome' = ReaderFailed
    /\ UNCHANGED <<jsonObj, rows, allEntries, grouped, zip, filesCreated,
                   classifyVars, complianceVars, appVars, weekVars>>

\* reader.onload, lines 465-491
LoadRows ==
    /\ pc = "reading"
    /\ rows' = ExtractRows(jsonObj)
    /\ IF Len(rows') = 0
       THEN pc' = "settled" /\ outcome' = Rejected("No records found.")
       ELSE pc' = "classify" /\ outcome' = outcome
    /\ UNCHANGED <<jsonObj, allEntries, grouped, zip, filesCreated,
                   classifyVars, complianceVars, appVars, weekVars>>

\* lines 493-498; a TypeError is caught at line 544 and rejects the promise
ClassifyRows ==
    /\ pc = "classify"
    /\ LET res == ClassifyAll(rows)
       IN  IF res.kind = "throw"
           THEN /\ pc' = "settled"
                /\ outcome' = Rejected("includes is not a function")
                /\ allEntries' = allEntries
           ELSE /\ pc' = "group"
                /\ outcome' = outcome
                /\ allEntries' = res.entries
    /\ UNCHANGED <<jsonObj, rows, grouped, zip, filesCreated,
                   classifyVars, complianceVars, appVars, weekVars>>

\* lines 500-511
GroupEntries ==
    /\ pc = "group"
    /\ grouped' = GroupByMonth(allEntries)
    /\ pc' = "sheets"
    /\ UNCHANGED <<jsonObj, rows, allEntries, zip, filesCreated, outcome,
                   classifyVars, complianceVars, appVars, weekVars>>

\* one iteration of the loop of lines 517-531
WriteWorkbook ==
    /\ pc = "sheets"
    /\ filesCreated < Len(grouped)
    /\ zip' = Append(zip, BuildFile(grouped[filesCreated + 1]))
    /\ filesCreated' = filesCreated + 1
    /\ UNCHANGED <<jsonObj, pc, rows, allEntries, grouped, outcome,
                   classifyVars, complianceVars, appVars, weekVars>>

\* the loop is over: zip.generateAsync is started (line 533)
StartZip ==
    /\ pc = "sheets"
    /\ filesCreated = Len(grouped)
    /\ pc' = "zipping"
    /\ UNCHANGED <<jsonObj, rows, allEntries, grouped, zip, filesCreated, outcome,
                   classifyVars, complianceVars, appVars, weekVars>>

\* lines 535-542
Resolve ==
    /\ pc = "zipping"
    /\ pc' = "settled"
    /\ outcome' = Resolved(zip, allEntries, filesCreated, grouped)
    /\ UNCHANGED <<jsonObj, rows, allEntries, grouped, zip, filesCreated,
                   classifyVars, complianceVars, appVars, weekVars>>

NextPipeline ==
    \/ ReaderError
    \/ LoadRows
    \/ ClassifyRows
    \/ GroupEntries
    \/ WriteWorkbook
    \/ StartZip
    \/ Resolve

SpecPipeline == InitPipeline /\ [][NextPipeline]_vars

\* ------------------------------------------------------------------------
\* Specification of the wizard (App.tsx, part_000)
\* ------------------------------------------------------------------------
\* the files the user can choose: the decoded content, and whether the first
\* 4000 characters carry a Sage marker (part_001 lines 10-15)
AppFiles ==
    { [name |-> "march.xml", sage |-> TRUE,
       doc |-> LogDoc(<<Row(Txt(<<"Sent">>), ZRmt, Undef, T_MAR15),
                        Row(Txt(<<"Received">>), ZRmt, OnMonitor1, D(3, 15, 13, 20))>>)],
      [name |-> "empty.xml", sage |-> TRUE,
       doc |-> Node(<<"log">>, <<Txt(<<>>)>>)],
      [name |-> "blank.xml", sage |-> FALSE,
       doc |-> Node(<<>>, <<>>)],
      [name |-> "numeric.xml", sage |-> TRUE,
       doc |-> LogDoc(<<Row(Txt(<<"Received">>), Num(16001), OnMonitor1, D(3, 15, 13, 0))>>)] }

\* what the controls on screen were rendered from.  <AnimatePresence
\* mode="wait"> (lines 226-298) keeps the view of the step being left on
\* screen, with the props and closures of its last render, until its exit
\* animation is over; `stale` is that view, NullValue when none is exiting.
Snapshot ==
    [step |-> currentStep, file |-> file, mapping |-> mapping,
     loading |-> loading, processingResult |-> processingResult]

View == IF stale = NullValue THEN Snapshot ELSE stale

\* the exiting view once the step becomes newStep
StaleAfter(newStep) ==
    IF newStep = currentStep THEN stale
    ELSE IF View.step = newStep THEN NullValue
    ELSE View

\* the string held by the error state (line 30)
Message(text) == [kind |-> "string", text |-> text]

RemoveAt(s, i) == SubSeq(s, 1, i - 1) \o SubSeq(s, i + 1, Len(s))

InitApp ==
    /\ currentStep = "UPLOAD" /\ file = NullValue /\ mapping = NullValue
    /\ processingResult = NullValue /\ error = NullValue /\ loading = FALSE
    /\ stale = NullValue /\ analyses = <<>> /\ runs = <<>>
    /\ started = [selects |-> 0, runs |-> 0]
    /\ downloaded = NullValue
    /\ apiKey \in BOOLEAN
    /\ ClassifyIdle /\ ComplianceIdle /\ PipelineIdle /\ WeekIdle

\* the exit animation of the view being left is over
FinishTransition ==
    /\ stale # NullValue
    /\ stale' = NullValue
    /\ UNCHANGED <<appState, analyses, runs, started, downloaded, apiKey,
                   classifyVars, complianceVars, pipelineVars, weekVars>>

\* lines 34-38: <FileUpload> is on screen in the UPLOAD step while not loading
\* (lines 255-262)
handleFileSelect(selectedFile) ==
    /\ View.step = "UPLOAD" /\ ~View.loading
    /\ started.selects < MaxSelects
    /\ file' = selectedFile
    /\ loading' = TRUE
    /\ error' = NullValue
    /\ analyses' = Append(analyses, selectedFile)
    /\ started' = [started EXCEPT !.selects = @ + 1]
    /\ UNCHANGED <<currentStep, mapping, processingResult, stale, runs, downloaded,
                   apiKey, classifyVars, complianceVars, pipelineVars, weekVars>>

\* lines 39-52: the i-th pending analysis settles
AnalysisSettles(i, detected) ==
    /\ i \in DOMAIN analyses
    /\ detected \in analyzeXMLSchema(analyses[i], apiKey)
    /\ IF detected = AnalysisFailed
       THEN /\ error' = Message("Failed to analyze XML structure. Please ensure the file is valid XML.")
            /\ UNCHANGED <<mapping, currentStep, stale>>
       ELSE /\ mapping' = detected
            /\ currentStep' = "ANALYZE"
            /\ stale' = StaleAfter("ANALYZE")
            /\ error' = error
    /\ loading' = FALSE
    /\ analyses' = RemoveAt(analyses, i)
    /\ UNCHANGED <<file, processingResult, runs, started, downloaded, apiKey,
                   classifyVars, complianceVars, pipelineVars, weekVars>>

\* lines 56-63 and 74: "Confirm & Process" of the ANALYZE view (line 153);
\* the callback keeps the file and mapping of the render it was made in
handleStartProcessing ==
    /\ View.step = "ANALYZE"
    /\ View.file # NullValue /\ View.mapping # NullValue
    /\ started.runs < MaxRuns
    /\ loading' = TRUE
    /\ currentStep' = "PROCESSING"
    /\ stale' = StaleAfter("PROCESSING")
    /\ runs' = Append(runs, [file |-> View.file, mapping |-> View.mapping,
                             stage |-> "scheduled"])
    /\ started' = [started EXCEPT !.runs = @ + 1]
    /\ UNCHANGED <<file, mapping, processingResult, error, analyses, downloaded,
                   apiKey, classifyVars, complianceVars, pipelineVars, weekVars>>

\* lines 63-65: the timer fires and processXMLFile starts reading the file
TimerFires(i) ==
    /\ i \in DOMAIN runs
    /\ runs[i].stage = "scheduled"
    /\ runs' = [runs EXCEPT ![i].stage = "reading"]
    /\ UNCHANGED <<appState, stale, analyses, started, downloaded, apiKey,
                   classifyVars, complianceVars, pipelineVars, weekVars>>

\* lines 65-73: the promise of the i-th run settles with result
RunSettles(i, result) ==
    /\ i \in DOMAIN runs
    /\ runs[i].stage = "reading"
    /\ result \in { processXMLFile(runs[i].file.doc, runs[i].mapping), ReaderFailed }
    /\ IF result.kind = "resolved"
       THEN /\ processingResult' = result
            /\ currentStep' = "COMPLETE"
            /\ stale' = StaleAfter("COMPLETE")
            /\ error' = error
       ELSE /\ error' = Message("Error processing file. " \o result.message)
            /\ currentStep' = "ANALYZE"
            /\ stale' = StaleAfter("ANALYZE")
            /\ processingResult' = processingResult
    /\ loading' = FALSE
    /\ runs' = RemoveAt(runs, i)
    /\ UNCHANGED <<file, mapping, analyses, started, downloaded, apiKey,
                   classifyVars, complianceVars, pipelineVars, weekVars>>

\* lines 78-89: "Download ZIP" of the COMPLETE view (line 204)
handleDownload ==
    /\ View.step = "COMPLETE"
    /\ View.processingResult # NullValue
    /\ downloaded' = [kind |-> "zip", files |-> View.processingResult.zipBlob]
    /\ UNCHANGED <<appState, stale, analyses, runs, started, apiKey,
                   classifyVars, complianceVars, pipelineVars, weekVars>>

\* lines 91-97: "Cancel" of the ANALYZE view (line 152), "Process Another" of
\* the COMPLETE view (line 201)
reset ==
    /\ View.step \in {"ANALYZE", "COMPLETE"}
    /\ file' = NullValue
    /\ mapping' = NullValue
    /\ processingResult' = NullValue
    /\ currentStep' = "UPLOAD"
    /\ stale' = StaleAfter("UPLOAD")
    /\ error' = NullValue
    /\ UNCHANGED <<loading, analyses, runs, started, downloaded, apiKey,
                   classifyVars, complianceVars, pipelineVars, weekVars>>

\* line 236: the close button of the error banner
dismissError ==
    /\ error # NullValue
    /\ error' = NullValue
    /\ UNCHANGED <<currentStep, file, mapping, processingResult, loading, stale,
                   analyses, runs, started, downloaded, apiKey,
                   classifyVars, complianceVars, pipelineVars, weekVars>>

NextApp ==
    \/ FinishTransition
    \/ \E f \in AppFiles : handleFileSelect(f)
    \/ \E i \in 1 .. MaxSelects : \E m \in {SageMapping, FallbackMapping, AiMapping, AnalysisFailed} :
           AnalysisSettles(i, m)
    \/ handleStartProcessing
    \/ \E i \in 1 .. MaxRuns : TimerFires(i)
    \/ \E i \in 1 .. MaxRuns : \E f \in AppFiles :
           RunSettles(i, processXMLFile(f.doc, NullValue))
    \/ \E i \in 1 .. MaxRuns : RunSettles(i, ReaderFailed)
    \/ handleDownload
    \/ reset
    \/ dismissError

SpecApp == InitApp /\ [][NextApp]_vars

\* ------------------------------------------------------------------------
\* Properties of the compliance matcher
\* ------------------------------------------------------------------------
\* the dates of the received entries strictly earlier than the sent entry
EarlierDates(sent, received) == { r.date : r \in { x \in Range(received) : x.date < sent.date } }

MaxOf(S) == CHOOSE m \in S : \A x \in S : x <= m

\* C1: checkRmtCompliance agrees with the reference rule: found iff some
\* received entry is strictly earlier than the sent entry, and compliant iff
\* found and the sent entry is at most 60 minutes (3600 s, inclusive) after
\* the latest of the strictly earlier entries.
C1_ReferenceRule ==
    compliance # Pending =>
        LET earlier == EarlierDates(sentEntry, receivedEntries)
        IN  /\ compliance.found = (earlier # {})
            /\ compliance.compliant =
                   (earlier # {} /\ sentEntry.date - MaxOf(earlier) <= 3600)

\* receipts at T - 45 min and T - 10 min for T = 14:00:00 were matched
C1_Witness ==
    /\ compliance # Pending
    /\ sentEntry.date = MakeDate(2024, 3, 15, 14, 0, 0)
    /\ Len(receivedEntries) = 2
    /\ receivedEntries[1].date = MakeDate(2024, 3, 15, 13, 15, 0)
    /\ receivedEntries[2].date = MakeDate(2024, 3, 15, 13, 50, 0)
    /\ compliance.found /\ compliance.compliant

\* ------------------------------------------------------------------------
\* Properties of the classifier
\* ------------------------------------------------------------------------
Field(r, name) == IF r.kind = "obj" THEN r[name] ELSE Undef

TextHas(v, pat) == v.kind = "text" /\ includes(v.toks, <<pat>>)

TypeIsSentOrReceived(r) == Field(r, "type") \in { Txt(<<"Sent">>), Txt(<<"Received">>) }

HasTestMarker(r) ==
    \/ TextHas(Field(r, "zczc"), "-RWT-") \/ TextHas(Field(r, "zczc"), "-RMT-")
    \/ TextHas(Field(r, "details"), "Required Weekly Test")
    \/ TextHas(Field(r, "details"), "Required Monthly Test")

DateParses(r) == parseSageDate(Field(r, "date")) # NoDate

HasSourceMarker(r) ==
    \/ TextHas(Field(r, "details"), "Received from CAP")
    \/ TextHas(Field(r, "details"), "Received on Monitor")

\* C4: parseSageEntry returns an entry iff the type is "Sent" or "Received",
\* a test-kind marker is present and the date parses, and returns none
\* otherwise; a Received record passing the three checks without a CAP or
\* Monitor marker yields an entry with source "Unknown".
C4_ClassifyIff ==
    parsed # Pending =>
        /\ (parsed.kind = "entry") <=>
               (TypeIsSentOrReceived(row) /\ HasTestMarker(row) /\ DateParses(row))
        /\ parsed.kind # "entry" => parsed = Null
        /\ ( /\ TypeIsSentOrReceived(row) /\ HasTestMarker(row) /\ DateParses(row)
             /\ ~HasSourceMarker(row) /\ row.type = Txt(<<"Received">>) )
               => (parsed.kind = "entry" /\ parsed.source = "Unknown")

\* C9: every classified entry of type Sent has source "Station Log" and
\* originalSource "Station", whatever its details contain.
C9_SentIsStationLog ==
    (parsed # Pending /\ parsed.kind = "entry" /\ parsed.type = "Sent") =>
        (parsed.source = "Station Log" /\ parsed.originalSource = "Station")

\* ------------------------------------------------------------------------
\* Properties of one run of processXMLFile
\* ------------------------------------------------------------------------
\* the entries of allEntries that fall in the month of workbook f
MonthEntries(f) ==
    SelectSeqOf(allEntries,
                { e \in Range(allEntries) :
                    getFullYear(e.date) = f.key.year /\ getMonth(e.date) + 1 = f.key.month }, 1)

OfKind(entries, event, type) == { e \in Range(entries) : e.event = event /\ e.type = type }

CountOf(entries, event, type) ==
    Cardinality({ i \in DOMAIN entries : entries[i].event = event /\ entries[i].type = type })

\* the row of the worksheet whose first cell holds text
RowOf(ws, text) ==
    CHOOSE r \in 0 .. ws.ref.r : <<r, 0>> \in DOMAIN ws.cells /\ ws.cells[<<r, 0>>].v = text

CellAt(ws, r, c) ==
    IF <<r, c>> \in DOMAIN ws.cells THEN ws.cells[<<r, c>>] ELSE [v |-> "(absent)", s |-> "(absent)"]

\* the rows of the sent RMTs of workbook f: the rows between the column
\* header of the "RMT Transmitted" section and its explanation row, each with
\* the date and time of a sent RMT of the month
SentRmtRows(f) ==
    LET top == RowOf(f.ws, "Required Monthly Test (RMT) Transmitted") + 1
        end == RowOf(f.ws, "Explanation for RMT not transmitted:")
    IN  { r \in (top + 1) .. (end - 1) : CellAt(f.ws, r, 0).v # "(No RMT Sent)" }

\* the sent RMT entries of the month that row r of workbook f can stand for
SentAtRow(f, r) ==
    { e \in OfKind(MonthEntries(f), "RMT", "Sent") :
        /\ CellAt(f.ws, r, 0).v = formatDateShort(e.date)
        /\ CellAt(f.ws, r, 1).v = formatTime(e.date) }

\* every sent RMT of the month has its row, and every row its sent RMT
SentRmtRowsComplete(f) ==
    /\ \A r \in SentRmtRows(f) : SentAtRow(f, r) # {}
    /\ \A e \in OfKind(MonthEntries(f), "RMT", "Sent") :
           \E r \in SentRmtRows(f) : e \in SentAtRow(f, r)
    /\ Cardinality(SentRmtRows(f)) = CountOf(MonthEntries(f), "RMT", "Sent")

\* C2: in every workbook of the run, the row of a sent RMT is not tagged
\* "N (No RX)" whenever some received RMT among all classified entries of the
\* run, of whatever month, is strictly earlier than the sent entry.
C2_MatchedAcrossMonths ==
    \A k \in DOMAIN zip :
        \A r \in SentRmtRows(zip[k]) : \A e \in SentAtRow(zip[k], r) :
            (\E x \in OfKind(allEntries, "RMT", "Received") : x.date < e.date)
                => CellAt(zip[k].ws, r, 2).v # "N (No RX)"

\* the outcome of the check of sent entry e against the received RMTs of its sheet
SheetOutcome(f, e) ==
    LET earlier == { x.date : x \in { y \in OfKind(MonthEntries(f), "RMT", "Received") :
                                        y.date < e.date } }
    IN  [matched |-> earlier # {},
         within  |-> earlier # {} /\ e.date - MaxOf(earlier) <= 3600]

\* C3: the row of every sent RMT carries ("Y", success) iff matched and within
\* the window, ("N (Over 1hr)", missing) iff matched and not within it,
\* ("N (No RX)", warning) iff not matched, and no other text/style pair.
C3_TagStylePairs ==
    \A k \in DOMAIN zip :
        /\ SentRmtRowsComplete(zip[k])
        /\ \A r \in SentRmtRows(zip[k]) : \A e \in SentAtRow(zip[k], r) :
            LET o   == SheetOutcome(zip[k], e)
                tag == CellAt(zip[k].ws, r, 2)
            IN  /\ tag \in { [v |-> "Y", s |-> "success"],
                             [v |-> "N (Over 1hr)", s |-> "missing"],
                             [v |-> "N (No RX)", s |-> "warning"] }
                /\ (tag = [v |-> "Y", s |-> "success"]) <=> (o.matched /\ o.within)
                /\ (tag = [v |-> "N (Over 1hr)", s |-> "missing"]) <=> (o.matched /\ ~o.within)
                /\ (tag = [v |-> "N (No RX)", s |-> "warning"]) <=> ~o.matched

\* a settled run whose workbook tags a sent RMT "N (Over 1hr)": its only
\* earlier receipt is 90 minutes old
C3_Witness ==
    /\ pc = "settled" /\ outcome.kind = "resolved"
    /\ \E k \in DOMAIN zip : \E r \in SentRmtRows(zip[k]) :
           CellAt(zip[k].ws, r, 2) = [v |-> "N (Over 1hr)", s |-> "missing"]

\* the rows of the matrix of workbook f: the rows between its column header
\* and the "RWT Transmitted" section (two rows are left blank before it)
MatrixRows(f) ==
    LET top == RowOf(f.ws, "Required Weekly Test (RWT) Received") + 1
        end == RowOf(f.ws, "Required Weekly Test (RWT) Transmitted") - 2
    IN  { r \in (top + 1) .. (end - 1) : CellAt(f.ws, r, 0).v # "No RWT Received Data" }

MatrixHeaderRow(f) == RowOf(f.ws, "Required Weekly Test (RWT) Received") + 1

\* the columns of the matrix whose header names the week that starts at w
WeekColumns(f, w) ==
    { c \in 1 .. f.ws.ref.c :
        CellAt(f.ws, MatrixHeaderRow(f), c).v = "WEEK OF\n" \o formatWeekRange(w) }

WeekStartsOf(entries) ==
    { e.date - (getDay(e.date) * SecsPerDay + getHours(e.date) * 3600
                  + getMinutes(e.date) * 60 + getSeconds(e.date)) : e \in Range(entries) }

DateTimeText(e) == formatDateShort(e.date) \o "\n" \o formatTime(e.date)

\* C5: in every workbook, for every source label of the month's received RWTs
\* and every week start of the month's entries, there is a row for the label
\* and a column for the week, and the cell where they meet holds the date and
\* time of one received RWT of that label or "MISSING" in the missing style.
C5_MatrixComplete ==
    \A k \in DOMAIN zip :
        LET f      == zip[k]
            rwtRcv == OfKind(MonthEntries(f), "RWT", "Received")
        IN  \A src \in { e.source : e \in rwtRcv } : \A w \in WeekStartsOf(MonthEntries(f)) :
                /\ \E r \in MatrixRows(f) : CellAt(f.ws, r, 0).v = src
                /\ WeekColumns(f, w) # {}
                /\ \A r \in MatrixRows(f) : \A c \in WeekColumns(f, w) :
                       CellAt(f.ws, r, 0).v = src =>
                           \/ CellAt(f.ws, r, c) = [v |-> "MISSING", s |-> "missing"]
                           \/ \E e \in rwtRcv :
                                  /\ e.source = src
                                  /\ CellAt(f.ws, r, c) = [v |-> DateTimeText(e), s |-> "cellCenter"]

\* a settled run whose matrix has two weeks and a label with one week
\* received and the other MISSING
C5_Witness ==
    /\ pc = "settled" /\ outcome.kind = "resolved"
    /\ \E k \in DOMAIN zip : \E r \in MatrixRows(zip[k]) :
           /\ Cardinality(WeekStartsOf(MonthEntries(zip[k]))) >= 2
           /\ \E c \in 1 .. zip[k].ws.ref.c : CellAt(zip[k].ws, r, c).v = "MISSING"
           /\ \E c \in 1 .. zip[k].ws.ref.c : CellAt(zip[k].ws, r, c).s = "cellCenter"

\* C6: a run whose input holds at least one raw record resolves, whatever
\* the fields of the records hold.
C6_NoRecordAborts ==
    (pc = "settled" /\ Len(rows) >= 1) => outcome.kind = "resolved"

RECURSIVE SumOfSizes(_)
SumOfSizes(gs) == IF gs = <<>> THEN 0 ELSE Len(Head(gs).entries) + SumOfSizes(Tail(gs))

\* "YYYY/MM" of a date, the month 1-based and zero-padded
YearMonthText(date) ==
    LET m == getMonth(date) + 1
    IN  ToString(getFullYear(date)) \o "/" \o (IF m < 10 THEN "0" ELSE "") \o ToString(m)

\* C8: after a successful run every classified entry is in exactly one month
\* group, whose key is the entry's own "YYYY/MM"; totalRows is the number of
\* classified entries and the sum of the group sizes; filesCreated is the
\* number of groups and of monthsFound; monthsFound is strictly ascending; no
\* group is empty.
C8_MonthPartition ==
    (pc = "settled" /\ outcome.kind = "resolved") =>
        LET stats == outcome.stats
        IN  /\ \A i \in DOMAIN allEntries :
                   /\ \E g \in DOMAIN grouped : grouped[g].key.text = YearMonthText(allEntries[i].date)
                   /\ \A g \in DOMAIN grouped :
                          (allEntries[i] \in Range(grouped[g].entries))
                              <=> (grouped[g].key.text = YearMonthText(allEntries[i].date))
            /\ \A g, h \in DOMAIN grouped : grouped[g].key.text = grouped[h].key.text => g = h
            /\ \A g \in DOMAIN grouped :
                   /\ Len(grouped[g].entries) >= 1
                   /\ \A e \in Range(grouped[g].entries) : e \in Range(allEntries)
            /\ stats.totalRows = Len(allEntries)
            /\ stats.totalRows = SumOfSizes(grouped)
            /\ stats.filesCreated = Len(grouped)
            /\ stats.filesCreated = Len(stats.monthsFound)
            /\ stats.filesCreated = Len(outcome.zipBlob)
            /\ { stats.monthsFound[i].text : i \in DOMAIN stats.monthsFound }
                   = { YearMonthText(e.date) : e \in Range(allEntries) }
            /\ \A i \in 1 .. (Len(stats.monthsFound) - 1) :
                   LET a == stats.monthsFound[i]
                       b == stats.monthsFound[i + 1]
                   IN  a.year < b.year \/ (a.year = b.year /\ a.month < b.month)

\* a successful run over three months, the latest month first in the input
C8_Witness ==
    /\ pc = "settled" /\ outcome.kind = "resolved"
    /\ Len(outcome.stats.monthsFound) = 3
    /\ grouped[1].key.text = "2024/03"

\* C10 as stated: the matrix of a month has one row per distinct
\* originalSource among the month's received RWTs.
C10_RowsPerSourceCode ==
    \A k \in DOMAIN zip :
        Cardinality(MatrixRows(zip[k]))
            = Cardinality({ e.originalSource : e \in OfKind(MonthEntries(zip[k]), "RWT", "Received") })

\* C10, amended: the matrix of a month has one row per distinct source label
\* among the month's received RWTs, each label heading exactly one row, so two
\* received RWTs with the same label share a row.
C10_RowsPerLabel ==
    \A k \in DOMAIN zip :
        LET labels == { e.source : e \in OfKind(MonthEntries(zip[k]), "RWT", "Received") }
        IN  /\ Cardinality(MatrixRows(zip[k])) = Cardinality(labels)
            /\ \A l \in labels :
                   Cardinality({ r \in MatrixRows(zip[k]) : CellAt(zip[k].ws, r, 0).v = l }) = 1

\* a settled run with two CAP receipts of one month, one mentioning IPAWS:
\* one originalSource, two labels, two rows
C10_Witness ==
    /\ pc = "settled" /\ outcome.kind = "resolved"
    /\ \E k \in DOMAIN zip :
           LET rcv == OfKind(MonthEntries(zip[k]), "RWT", "Received")
           IN  /\ { e.originalSource : e \in rcv } = {"CAP"}
               /\ { e.source : e \in rcv } = {"CAP-IPAWS", "CAP-IPAWS IPAWS@DHS.GOV"}
               /\ Cardinality(MatrixRows(zip[k])) = 2

SignOffRow(f) == RowOf(f.ws, "Weekly Log Review by Chief Operator or Designee")

\* the position of week w among the weeks, in ascending order, from 1
RankOf(w, weeks) == 1 + Cardinality({ v \in weeks : v < w })

\* C11: in every workbook the weeks are the distinct week starts of all the
\* entries of the month; in ascending order each has exactly one column of
\* the matrix header and exactly one row of the sign-off block, and there is
\* at least one week, also when the month holds RMT entries only.
C11_WeekSet ==
    \A k \in DOMAIN zip :
        LET f     == zip[k]
            weeks == WeekStartsOf(MonthEntries(f))
            n     == Cardinality(weeks)
            hr    == MatrixHeaderRow(f)
            fr    == SignOffRow(f)
        IN  /\ n >= 1
            /\ \A w \in weeks :
                   /\ CellAt(f.ws, hr, RankOf(w, weeks))
                          = [v |-> "WEEK OF\n" \o formatWeekRange(w), s |-> "header"]
                   /\ CellAt(f.ws, fr + 1 + RankOf(w, weeks), 0)
                          = [v |-> formatWeekRange(w), s |-> "cellCenter"]
            /\ \A c \in 1 .. f.ws.ref.c + 1 : (<<hr, c>> \in DOMAIN f.ws.cells) <=> (c <= n)
            /\ \A r \in (fr + 2) .. (f.ws.ref.r + 1) :
                   (<<r, 0>> \in DOMAIN f.ws.cells) <=> (r <= fr + 1 + n)
            /\ f.ws.ref.c = n + 1

\* a settled run with a month of RMT entries only, whose sheet still has a
\* week column and a sign-off row
C11_Witness ==
    /\ pc = "settled" /\ outcome.kind = "resolved"
    /\ \E k \in DOMAIN zip :
           /\ \A e \in Range(MonthEntries(zip[k])) : e.event = "RMT"
           /\ Cardinality(WeekStartsOf(MonthEntries(zip[k]))) = 1
           /\ <<MatrixHeaderRow(zip[k]), 1>> \in DOMAIN zip[k].ws.cells
           /\ <<SignOffRow(zip[k]) + 2, 0>> \in DOMAIN zip[k].ws.cells

\* ------------------------------------------------------------------------
\* Properties of getWeekStartDate
\* ------------------------------------------------------------------------
\* the number of the Sunday-to-Saturday week of instant t; 1 January 2000,
\* day 0 of the calendar, was a Saturday
WeekNumber(t) == (t \div 86400 + 6) \div 7

IsSundayMidnight(t) == t % 86400 = 0 /\ (t \div 86400) % 7 = 1

Mappings == { SageMapping, FallbackMapping, AiMapping }

Scenario1Rows ==
    { Row(Txt(<<"Sent">>), ZRmt, Undef, T_MAR15),
      Row(Txt(<<"Received">>), ZRmt, OnMonitor1, D(3, 15, 13, 20)),
      Row(Txt(<<"Sent">>), Undef, Txt(<<"Audio level alarm">>), D(3, 15, 14, 5)) }

IsScenario1 == Len(rows) = 3 /\ Range(rows) = Scenario1Rows

\* C14: the run over exactly the three records of scenario 1, in any order,
\* resolves with totalRows = 2, one month group "2024/03", filesCreated = 1,
\* and the single sent RMT row of the sheet is tagged "Y".
C14_Scenario1 ==
    (pc = "settled" /\ IsScenario1) =>
        /\ outcome.kind = "resolved"
        /\ Len(allEntries) = 2
        /\ outcome.stats.totalRows = 2
        /\ outcome.stats.filesCreated = 1
        /\ Len(grouped) = 1
        /\ Len(outcome.stats.monthsFound) = 1
        /\ outcome.stats.monthsFound[1].text = "2024/03"
        /\ Len(outcome.zipBlob) = 1
        /\ outcome.zipBlob[1].path = "2024/03/Sage_Log_2024-03.xlsx"
        /\ Cardinality(SentRmtRows(outcome.zipBlob[1])) = 1
        /\ \A r \in SentRmtRows(outcome.zipBlob[1]) :
               /\ CellAt(outcome.zipBlob[1].ws, r, 0).v = "3/15/2024"
               /\ CellAt(outcome.zipBlob[1].ws, r, 1).v = "14:00:00"
               /\ CellAt(outcome.zipBlob[1].ws, r, 2) = [v |-> "Y", s |-> "success"]

\* the run over the three records has resolved
C14_Witness ==
    /\ pc = "settled" /\ IsScenario1
    /\ outcome.kind = "resolved"
    /\ rows[1].type = Txt(<<"Sent">>) /\ rows[1].zczc = ZRmt

\* the month of workbook f holds exactly two received RWTs of March 2024, of
\* one source label, in two different weeks (and so no sent RWT)
IsScenario2(f) ==
    LET es == MonthEntries(f)
    IN  /\ Len(es) = 2
        /\ f.key.text = "2024/03"
        /\ \A e \in Range(es) : e.type = "Received" /\ e.event = "RWT"
        /\ es[1].source = es[2].source
        /\ WeekNumber(es[1].date) # WeekNumber(es[2].date)

RwtSentHeaderRow(f) == RowOf(f.ws, "Required Weekly Test (RWT) Transmitted")

\* C15: a month of two received RWTs of one source in two weeks of March 2024
\* and no sent RWT gives a matrix of exactly 2 week columns and 1 source row,
\* both cells holding a date and time (no "MISSING"), no "No RWT Received
\* Data" row, and an RWT Transmitted section whose column header is directly
\* followed by the explanation prompt.
C15_Scenario2 ==
    \A k \in DOMAIN zip :
        IsScenario2(zip[k]) =>
            LET f  == zip[k]
                es == MonthEntries(f)
                hr == MatrixHeaderRow(f)
                t  == RwtSentHeaderRow(f)
            IN  /\ { c \in 1 .. f.ws.ref.c + 1 : <<hr, c>> \in DOMAIN f.ws.cells } = {1, 2}
                /\ MatrixRows(f) = {hr + 1}
                /\ CellAt(f.ws, hr + 1, 0) = [v |-> es[1].source, s |-> "cell"]
                /\ { CellAt(f.ws, hr + 1, 1), CellAt(f.ws, hr + 1, 2) }
                       = { [v |-> DateTimeText(e), s |-> "cellCenter"] : e \in Range(es) }
                /\ \A c \in 1 .. 2 : CellAt(f.ws, hr + 1, c).v # "MISSING"
                /\ \A ref \in DOMAIN f.ws.cells :
                       f.ws.cells[ref].v \notin {"No RWT Received Data", "MISSING"}
                /\ t = hr + 4
                /\ CellAt(f.ws, t + 1, 0) = [v |-> "WEEK OF", s |-> "header"]
                /\ CellAt(f.ws, t + 2, 0) = [v |-> "Explanation of RWT Failures:", s |-> "cell"]

\* a settled run whose March sheet is built from the receipts of 6 and 13
\* March on Monitor 1
C15_Witness ==
    /\ pc = "settled" /\ outcome.kind = "resolved"
    /\ \E k \in DOMAIN zip :
           /\ IsScenario2(zip[k])
           /\ CellAt(zip[k].ws, MatrixHeaderRow(zip[k]) + 1, 1).v = "3/6/2024\n09:00:00"
           /\ CellAt(zip[k].ws, MatrixHeaderRow(zip[k]) + 1, 2).v = "3/13/2024\n09:00:00"

\* ------------------------------------------------------------------------
\* Truth of the MISSING marker
\* ------------------------------------------------------------------------
\* C16: in every workbook, a matrix cell of a source label and a week holds
\* "MISSING" only if no received RWT among all classified entries of the run
\* has that label and a date in [weekStart, weekStart + 7 days), also when
\* the week straddles two months.
C16_MissingTruthful ==
    \A k \in DOMAIN zip :
        LET f     == zip[k]
            weeks == WeekStartsOf(MonthEntries(f))
        IN  \A r \in MatrixRows(f) : \A w \in weeks :
                CellAt(f.ws, r, RankOf(w, weeks)).v = "MISSING" =>
                    ~ \E e \in OfKind(allEntries, "RWT", "Received") :
                          /\ e.source = CellAt(f.ws, r, 0).v
                          /\ w <= e.date /\ e.date < w + 7 * 86400

\* ------------------------------------------------------------------------
\* Precedence of the test kinds
\* ------------------------------------------------------------------------
RwtMarkerFires(r) ==
    TextHas(Field(r, "zczc"), "-RWT-") \/ TextHas(Field(r, "details"), "Required Weekly Test")

RmtMarkerFires(r) ==
    TextHas(Field(r, "zczc"), "-RMT-") \/ TextHas(Field(r, "details"), "Required Monthly Test")

\* C17: a classified entry has event RWT whenever an RWT marker fires on its
\* record, also when an RMT marker fires on the other field, and event RMT
\* only when an RMT marker fires and no RWT marker does; it has exactly one
\* of the two kinds.
C17_RwtPrecedence ==
    (parsed # Pending /\ parsed.kind = "entry") =>
        /\ parsed.event \in {"RWT", "RMT"}
        /\ RwtMarkerFires(row) => parsed.event = "RWT"
        /\ (parsed.event = "RMT") <=> (RmtMarkerFires(row) /\ ~RwtMarkerFires(row))

\* a record with "-RMT-" in zczc and "Required Weekly Test" in details was
\* classified as RWT
C17_Witness ==
    /\ parsed # Pending /\ parsed.kind = "entry"
    /\ TextHas(Field(row, "zczc"), "-RMT-")
    /\ TextHas(Field(row, "details"), "Required Weekly Test")
    /\ parsed.event = "RWT"

\* ------------------------------------------------------------------------
\* reset() against a run in flight
\* ------------------------------------------------------------------------
\* what a run of the application can settle with
SettleResults ==
    { processXMLFile(f.doc, NullValue) : f \in AppFiles } \cup { ReaderFailed }

\* only reset() sets the step to UPLOAD and the file to null, and
\* handleStartProcessing and handleFileSelect each undo one of the two: in
\* this state every pending run was started before the last reset() and no
\* file has been selected since
ResetState ==
    /\ currentStep = "UPLOAD" /\ file = NullValue
    /\ processingResult = NullValue /\ error = NullValue

\* C18: after reset(), while no new file has been selected, the settlement
\* of a run that was in flight at the reset leaves the step at UPLOAD and
\* processingResult and error null.
C18_ResetIsFinal ==
    [][ (ResetState /\ \E i \in 1 .. MaxRuns : \E result \in SettleResults :
                           RunSettles(i, result))
        => (currentStep' = "UPLOAD" /\ processingResult' = NullValue
            /\ error' = NullValue) ]_vars
====
